---- MODULE Spec2Model ----
(***************************************************************************)
(* Verification model of the learning-rust repository.                     *)
(*                                                                         *)
(* Part 1: chapter17_oop_features_of_rust, module blog_post: a Post with   *)
(* a boxed State trait object (Draft, PendingReview, Published) and a      *)
(* String content.  A String is modelled as a sequence of characters, the  *)
(* Option<Box<dyn State>> field as a sequence of length 0 (None) or 1      *)
(* (Some), and dynamic dispatch as a CASE over the concrete type.          *)
(***************************************************************************)
EXTENDS Integers, Sequences, FiniteSets, TLC

\* ---------------------------------------------------------------- bounds
\* Longest text handed to one add_text call.
MaxTextLen == 2

\* Number of calls made on one post before the driver stops calling.
MaxCalls == 5

\* The characters texts are built from.
Chars == {"a", "b"}

RECURSIVE SeqsUpTo(_)
SeqsUpTo(n) ==
    IF n = 0 THEN {<<>>}
    ELSE LET shorter == SeqsUpTo(n - 1)
         IN  shorter \cup {Append(s, c) : s \in {t \in shorter : Len(t) = n - 1}, c \in Chars}

\* The arguments add_text is called with.
Texts == SeqsUpTo(MaxTextLen)

\* ------------------------------------------------- Option<Box<dyn State>>
None == <<>>
Some(s) == <<s>>

\* Option::take: the value taken out, and what is left behind.
take(o) == [taken |-> o, left |-> None]

\* Option::unwrap on a Some.
unwrap(o) == o[1]

\* ------------------------------------------------------ String operations
String_new == <<>>

push_str_appends_in_front(s, text) == text \o s

push_str_replaces(s, text) == text

\* String::push_str as used by Post::add_text.
push_str(s, text) == s \o text

\* ------------------------------------------------------- the State trait
\* The default body of State::content.
State_content_leaks(self, p) == p.content

State_content(self, p) == <<>>

Draft_request_review_stays(self) == self

Draft_request_review_skips_review(self) == "Published"

Draft_request_review(self) == "PendingReview"

Draft_approve_publishes(self) == "Published"

Draft_approve(self) == self

PendingReview_request_review_publishes(self) == "Published"

PendingReview_request_review(self) == self

PendingReview_approve_stays(self) == self

PendingReview_approve(self) == "Published"

Published_request_review(self) == self

Published_approve_back_to_draft(self) == "Draft"

Published_approve_to_pending(self) == "PendingReview"

Published_approve(self) == self

Published_content_default(self, p) == <<>>

Published_content(self, p) == p.content

\* Calls through the Box<dyn State> vtable.
dyn_request_review(s) ==
    CASE s = "Draft"         -> Draft_request_review(s)
      [] s = "PendingReview" -> PendingReview_request_review(s)
      [] s = "Published"     -> Published_request_review(s)

dyn_approve(s) ==
    CASE s = "Draft"         -> Draft_approve(s)
      [] s = "PendingReview" -> PendingReview_approve(s)
      [] s = "Published"     -> Published_approve(s)

dyn_content(s, p) ==
    CASE s = "Draft"         -> State_content(s, p)
      [] s = "PendingReview" -> State_content(s, p)
      [] s = "Published"     -> Published_content(s, p)

\* ------------------------------------------------------------- impl Post
Post_new_pending == [state |-> Some("PendingReview"), content |-> String_new]

Post_new == [state |-> Some("Draft"), content |-> String_new]

Post_add_text_draft_only(self, text) ==
    IF self.state = Some("Draft")
    THEN [self EXCEPT !.content = push_str(@, text)]
    ELSE self

Post_add_text(self, text) == [self EXCEPT !.content = push_str(@, text)]

\* Defined when self.state is a Some; the caller panics otherwise.
Post_content(self) == dyn_content(unwrap(self.state), self)

Post_request_review_leaves_none(self) ==
    LET t == take(self.state)
    IN  [self EXCEPT !.state = t.left]

Post_request_review(self) ==
    LET t == take(self.state)
        emptied == [self EXCEPT !.state = t.left]
    IN  IF t.taken # None
        THEN [emptied EXCEPT !.state = Some(dyn_request_review(unwrap(t.taken)))]
        ELSE emptied

Post_approve_takes_content(self) ==
    LET t == take(self.state)
        emptied == [self EXCEPT !.state = t.left, !.content = String_new]
    IN  IF t.taken # None
        THEN [emptied EXCEPT !.state = Some(dyn_approve(unwrap(t.taken)))]
        ELSE emptied

Post_approve_leaves_none(self) ==
    LET t == take(self.state)
    IN  [self EXCEPT !.state = t.left]

Post_approve(self) ==
    LET t == take(self.state)
        emptied == [self EXCEPT !.state = t.left]
    IN  IF t.taken # None
        THEN [emptied EXCEPT !.state = Some(dyn_approve(unwrap(t.taken)))]
        ELSE emptied

\* ------------------------------------------------------------------ state
VARIABLES
    post,      \* the Post held by the caller: [state, content]
    ret,       \* what the latest content() call returned
    panicked,  \* TRUE once an unwrap of None has aborted the program
    history,   \* the calls made on this post since Post::new(), oldest
               \* first: [op, text, state, content] with the post's fields
               \* as the call left them
    query,     \* chapter12: the query handed to search / ci_search
    contents,  \* chapter12: the contents handed to search / ci_search
    res,       \* chapter12: [fn, lines]: the function called and its result
    val,       \* chapter11: the argument of Guess::new
    guess,     \* chapter11: [kind, val, msg]: what Guess::new produced
    chan,      \* chapter16: the messages in flight in the mpsc channel
    senders,   \* chapter16: per sender thread [pc, i, tx]
    main_pc,   \* chapter16: where the main thread is
    received,  \* chapter16: the messages the receive loop has printed
    maybe_received, \* chapter16: what rx.try_recv() returned
    cacher,    \* chapter13: the Cacher c: [value]
    invocations,  \* chapter13: how often the callable of c has run
    value_log, \* chapter13: the value calls made on c: [x, y, ret]
    counter,   \* chapter13: the CounterToFive: [count]
    nexts,     \* chapter13: what the next() calls returned, oldest first
    args,      \* chapter12: the arguments handed to Config::new
    env_set,   \* chapter12: whether CASE_INSENSITIVE is set
    config     \* chapter12: [kind, ...]: what Config::new returned

postVars == <<post, ret, panicked, history>>

searchVars == <<query, contents, res>>

guessVars == <<val, guess>>

chanVars == <<chan, senders, main_pc, received, maybe_received>>

closureVars == <<cacher, invocations, value_log, counter, nexts>>

configVars == <<args, env_set, config>>

vars == <<postVars, searchVars, guessVars, chanVars, closureVars, configVars>>

\* The variables of a chapter whose program is not the one running.
SearchIdle == query = <<>> /\ contents = <<>> /\ res = [fn |-> "none", lines |-> <<>>]

GuessIdle == val = 0 /\ guess = [kind |-> "none", val |-> 0, msg |-> <<>>]

ChanIdle ==
    /\ chan = <<>>
    /\ senders = <<>>
    /\ main_pc = "idle"
    /\ received = <<>>
    /\ maybe_received = "none"

ClosureIdle ==
    /\ cacher = [value |-> <<>>]
    /\ invocations = 0
    /\ value_log = <<>>
    /\ counter = [count |-> 0]
    /\ nexts = <<>>

ConfigIdle == args = <<>> /\ env_set = FALSE /\ config = [kind |-> "none"]

PostIdle ==
    /\ post = [state |-> <<>>, content |-> <<>>]
    /\ ret = <<>>
    /\ panicked = FALSE
    /\ history = <<>>

Call(name, text, p) == [op |-> name, text |-> text, state |-> p.state, content |-> p.content]

\* The latest call made on the post.
LastOp == IF history = <<>> THEN "new" ELSE history[Len(history)].op

Init ==
    /\ post = Post_new
    /\ ret = <<>>
    /\ panicked = FALSE
    /\ history = <<>>
    /\ SearchIdle
    /\ GuessIdle
    /\ ChanIdle
    /\ ClosureIdle
    /\ ConfigIdle

\* let mut post = Post::new();
Do_new ==
    /\ ~panicked
    /\ history # <<>>
    /\ post' = Post_new
    /\ ret' = <<>>
    /\ history' = <<>>
    /\ UNCHANGED <<panicked, searchVars, guessVars, chanVars, closureVars, configVars>>

\* post.add_text(text);
Do_add_text(text) ==
    /\ ~panicked
    /\ Len(history) < MaxCalls
    /\ post' = Post_add_text(post, text)
    /\ history' = Append(history, Call("add_text", text, post'))
    /\ UNCHANGED <<ret, panicked, searchVars, guessVars, chanVars, closureVars, configVars>>

\* post.content()
Do_content ==
    /\ ~panicked
    /\ Len(history) < MaxCalls
    /\ IF post.state = None
       THEN /\ panicked' = TRUE
            /\ UNCHANGED <<post, ret, history>>
       ELSE /\ ret' = Post_content(post)
            /\ history' = Append(history, Call("content", <<>>, post))
            /\ UNCHANGED <<post, panicked>>
    /\ UNCHANGED <<searchVars, guessVars, chanVars, closureVars, configVars>>

\* post.request_review();
Do_request_review ==
    /\ ~panicked
    /\ Len(history) < MaxCalls
    /\ post' = Post_request_review(post)
    /\ history' = Append(history, Call("request_review", <<>>, post'))
    /\ UNCHANGED <<ret, panicked, searchVars, guessVars, chanVars, closureVars, configVars>>

\* post.approve();
Do_approve ==
    /\ ~panicked
    /\ Len(history) < MaxCalls
    /\ post' = Post_approve(post)
    /\ history' = Append(history, Call("approve", <<>>, post'))
    /\ UNCHANGED <<ret, panicked, searchVars, guessVars, chanVars, closureVars, configVars>>

Next ==
    \/ Do_new
    \/ \E text \in Texts : Do_add_text(text)
    \/ Do_content
    \/ Do_request_review
    \/ Do_approve

Spec == Init /\ [][Next]_vars

\* ---------------------------------------------------------------- helpers
TypeOK ==
    /\ post.state \in {None, Some("Draft"), Some("PendingReview"), Some("Published")}
    /\ post.content \in Seq(Chars)
    /\ ret \in Seq(Chars)
    /\ panicked \in BOOLEAN
    /\ Len(history) <= MaxCalls

\* The calls of the history that are not content() calls.
Mutating(h) == SelectSeq(h, LAMBDA e : e.op # "content")

\* The texts of the add_text calls of h, concatenated in call order.
RECURSIVE AddedText(_)
AddedText(h) ==
    IF h = <<>> THEN <<>>
    ELSE LET e == h[1]
         IN  (IF e.op = "add_text" THEN e.text ELSE <<>>) \o AddedText(Tail(h))

\* The post's state before the i-th call of the history.
StateBefore(i) == IF i = 1 THEN Some("Draft") ELSE history[i - 1].state

ContentBefore(i) == IF i = 1 THEN <<>> ELSE history[i - 1].content

Rank(o) ==
    CASE o = Some("Draft")         -> 1
      [] o = Some("PendingReview") -> 2
      [] o = Some("Published")     -> 3
      [] OTHER                     -> 0

\* ----------------------------------------------------------------- claims
\* The history has an add_text call made in each of the three states, the
\* one on the Published post with a non-empty text.
AddedInEveryState ==
    /\ \E i \in 1..Len(history) :
          history[i].op = "add_text" /\ StateBefore(i) = Some("Draft")
    /\ \E i \in 1..Len(history) :
          history[i].op = "add_text" /\ StateBefore(i) = Some("PendingReview")
    /\ \E i \in 1..Len(history) :
          /\ history[i].op = "add_text"
          /\ StateBefore(i) = Some("Published")
          /\ history[i].text # <<>>

\* C1: whatever add_text calls were made, content() on a post whose state is
\* Draft or PendingReview returns the empty string.
C1_HiddenUntilPublished ==
    (post.state \in {Some("Draft"), Some("PendingReview")}) =>
        /\ Post_content(post) = <<>>
        /\ (LastOp = "content" => ret = <<>>)

\* Two non-empty texts were added, review was requested, and content() has
\* just been called on the PendingReview post.
C1_Witness ==
    /\ post.state = Some("PendingReview")
    /\ Len(post.content) >= 2
    /\ Cardinality({i \in 1..Len(history) :
                       history[i].op = "add_text" /\ history[i].text # <<>>}) >= 2
    /\ LastOp = "content"

\* The calls h are add_text calls followed by one request_review and then
\* one approve.
IsPublishRun(h) ==
    /\ Len(h) >= 2
    /\ h[Len(h)].op = "approve"
    /\ h[Len(h) - 1].op = "request_review"
    /\ \A i \in 1..(Len(h) - 2) : h[i].op = "add_text"

\* C2: on a new post, add_text calls followed by request_review and approve
\* take the state Draft -> PendingReview -> Published, and content() then
\* returns the texts of the add_text calls concatenated in call order.
C2_PublishShowsAll ==
    LET h == Mutating(history)
        n == Len(h)
    IN  IsPublishRun(h) =>
            /\ \A i \in 1..(n - 2) : h[i].state = Some("Draft")
            /\ h[n - 1].state = Some("PendingReview")
            /\ h[n].state = Some("Published")
            /\ post.state = Some("Published")
            /\ Post_content(post) = AddedText(h)
            /\ (LastOp = "content" => ret = AddedText(h))

\* Two different non-empty texts were added, the post went through review
\* and approval, and content() has just returned.
C2_Witness ==
    LET h == Mutating(history)
    IN  /\ IsPublishRun(h)
        /\ Len(h) = 4
        /\ h[1].text # <<>>
        /\ h[2].text # <<>>
        /\ h[1].text # h[2].text
        /\ LastOp = "content"
        /\ ret = h[1].text \o h[2].text

\* C3: no add_text, request_review, approve or content call moves the state
\* to an earlier one of Draft, PendingReview, Published.
C3_Monotonic ==
    [][(Do_content \/ Do_request_review \/ Do_approve
            \/ \E text \in Texts : Do_add_text(text))
        => Rank(post'.state) >= Rank(post.state)]_vars

\* A Published post has had a further request_review and a further approve
\* called on it.
C3_Witness ==
    /\ post.state = Some("Published")
    /\ \E i \in 1..Len(history) :
          history[i].op = "request_review" /\ StateBefore(i) = Some("Published")
    /\ \E i \in 1..Len(history) :
          history[i].op = "approve" /\ StateBefore(i) = Some("Published")

\* C4: approve on a Draft post leaves it Draft with content() empty, and as
\* long as no request_review was called the post is still Draft, however
\* many approve calls were made.
C4_ApproveNeedsReview ==
    /\ [][(Do_approve /\ post.state = Some("Draft"))
            => (post'.state = Some("Draft") /\ Post_content(post') = <<>>)]_vars
    /\ []((\A i \in 1..Len(history) : history[i].op # "request_review")
            => (post.state = Some("Draft") /\ Post_content(post) = <<>>))

\* Text was added and approve was called three times, with no request_review.
C4_Witness ==
    /\ post.content # <<>>
    /\ \A i \in 1..Len(history) : history[i].op # "request_review"
    /\ Cardinality({i \in 1..Len(history) : history[i].op = "approve"}) >= 3

\* C5: request_review takes Draft to PendingReview, and changes nothing and
\* raises no error on a PendingReview or Published post.
C5_RequestReview ==
    [][Do_request_review =>
        /\ post.state = Some("Draft") => post'.state = Some("PendingReview")
        /\ post.state \in {Some("PendingReview"), Some("Published")} => post' = post
        /\ panicked' = FALSE]_vars

\* request_review was called on a Draft, on a PendingReview and on a
\* Published post.
C5_Witness ==
    \A s \in {"Draft", "PendingReview", "Published"} :
        \E i \in 1..Len(history) :
            history[i].op = "request_review" /\ StateBefore(i) = Some(s)

\* C6: the post Post::new() returns is Draft with empty content, and
\* content() on it returns the empty string.
C6_NewIsEmptyDraft ==
    /\ (history = <<>> =>
            /\ post.state = Some("Draft")
            /\ post.content = <<>>
            /\ Post_content(post) = <<>>)
    /\ (Len(history) = 1 /\ LastOp = "content" => ret = <<>>)

\* content() has just been called on a post fresh from Post::new().
C6_Witness ==
    /\ Len(history) = 1
    /\ LastOp = "content"
    /\ post = Post_new

\* C7: add_text(text) appends text to the stored content in every state,
\* does not fail, and leaves the state as it was.
C7_AddTextAppends ==
    [][\A text \in Texts :
        Do_add_text(text) =>
            /\ post'.content = post.content \o text
            /\ Len(post'.content) = Len(post.content) + Len(text)
            /\ post'.state = post.state
            /\ panicked' = FALSE]_vars

\* Text was added in each state and each call extended the content.
C7_Witness ==
    /\ AddedInEveryState
    /\ \A i \in 1..Len(history) :
          history[i].op = "add_text" => history[i].content = ContentBefore(i) \o history[i].text
    /\ Len(post.content) >= 3

\* C8 as stated: an add_text call changes the stored content only when the
\* state is Draft.
C8_MutableOnlyInDraft ==
    [][\A text \in Texts :
        (Do_add_text(text) /\ post'.content # post.content)
            => post.state = Some("Draft")]_vars

\* C8 amended: an add_text call with a non-empty text changes the stored
\* content in every state, Draft, PendingReview or Published; one with the
\* empty text changes it in none.
C8_MutableInEveryState ==
    [][\A text \in Texts :
        Do_add_text(text) => ((post'.content # post.content) <=> (text # <<>>))]_vars

\* add_text changed the content of a PendingReview and of a Published post.
C8_Witness ==
    \A s \in {"PendingReview", "Published"} :
        \E i \in 1..Len(history) :
            /\ history[i].op = "add_text"
            /\ StateBefore(i) = Some(s)
            /\ history[i].content # ContentBefore(i)

\* C9: text added to a Published post is returned by content() at once, after
\* the old content, with no further request_review or approve.
C9_PublishedTextVisibleAtOnce ==
    /\ [][\A text \in Texts :
            (Do_add_text(text) /\ post.state = Some("Published"))
                => Post_content(post') = Post_content(post) \o text]_vars
    /\ [](\A i \in 2..Len(history) :
            (/\ history[i].op = "content"
             /\ history[i - 1].op = "add_text"
             /\ StateBefore(i - 1) = Some("Published")
             /\ i = Len(history))
                => ret = ContentBefore(i - 1) \o history[i - 1].text)

\* A published post with content had more text added, and the content() call
\* right after it returned both.
C9_Witness ==
    LET n == Len(history)
    IN  /\ n >= 2
        /\ history[n].op = "content"
        /\ history[n - 1].op = "add_text"
        /\ history[n - 1].text # <<>>
        /\ StateBefore(n - 1) = Some("Published")
        /\ ContentBefore(n - 1) # <<>>
        /\ ret = ContentBefore(n - 1) \o history[n - 1].text

\* C10: request_review and approve leave the stored content as it was, in
\* every state.
C10_TransitionsKeepContent ==
    [][(Do_request_review \/ Do_approve) => post'.content = post.content]_vars

\* A post with content was taken through request_review and approve, and
\* both were called again on the Published post.
C10_Witness ==
    /\ post.content # <<>>
    /\ Len(history) >= 1
    /\ history[1].op = "add_text"
    /\ history[1].text # <<>>
    /\ C3_Witness

\* s is a prefix of t.
IsPrefix(s, t) == Len(s) <= Len(t) /\ SubSeq(t, 1, Len(s)) = s

\* The three values the state field holds between calls.
SomeStates == {Some("Draft"), Some("PendingReview"), Some("Published")}

\* C11: over every call made on a post, the content stored before the call
\* is a prefix of the content stored after it.
C11_AppendOnly ==
    [][(Do_content \/ Do_request_review \/ Do_approve
            \/ \E text \in Texts : Do_add_text(text))
        => IsPrefix(post.content, post'.content)]_vars

\* Non-empty texts were added before and after a transition, and the content
\* has grown to at least three characters.
C11_Witness ==
    /\ Len(post.content) >= 3
    /\ \E i, j, k \in 1..Len(history) :
          /\ i < j
          /\ j < k
          /\ history[i].op = "add_text"
          /\ history[i].text # <<>>
          /\ history[j].op \in {"request_review", "approve"}
          /\ history[k].op = "add_text"
          /\ history[k].text # <<>>

\* C12: before and after every call the state field is a Some holding
\* Draft, PendingReview or Published; the None that take() leaves behind is
\* gone when request_review or approve returns.
C12_StateAlwaysPresent ==
    /\ post.state \in SomeStates
    /\ \A i \in 1..Len(history) : history[i].state \in SomeStates
    /\ take(post.state).left = None
    /\ Post_request_review(post).state \in SomeStates
    /\ Post_approve(post).state \in SomeStates

\* request_review and approve have both been called, each at least twice,
\* and the post has been in all three states.
C12_Witness ==
    /\ Cardinality({i \in 1..Len(history) : history[i].op = "request_review"}) >= 2
    /\ Cardinality({i \in 1..Len(history) : history[i].op = "approve"}) >= 2
    /\ {StateBefore(i) : i \in 1..Len(history)} \cup {post.state} = SomeStates

\* C13: no call panics, and in every reachable state each of the operations
\* can be called and returns without a panic.
C13_NoOperationFails ==
    /\ ~panicked
    /\ (Len(history) < MaxCalls =>
            /\ ENABLED (Do_content /\ ~panicked')
            /\ ENABLED (Do_request_review /\ ~panicked')
            /\ ENABLED (Do_approve /\ ~panicked')
            /\ \A text \in Texts : ENABLED (Do_add_text(text) /\ ~panicked'))
    /\ ENABLED (Do_new /\ ~panicked') \/ history = <<>>

\* content() was called, and returned, on a Draft, a PendingReview and a
\* Published post.
C13_Witness ==
    /\ ~panicked
    /\ \A s \in {"Draft", "PendingReview", "Published"} :
          \E i \in 1..Len(history) :
              history[i].op = "content" /\ history[i].state = Some(s)

\* C14: in every state a second request_review right after a first changes
\* neither state nor content; two in a row on a Draft post leave it
\* PendingReview.
C14_RequestReviewIdempotent ==
    /\ Post_request_review(Post_request_review(post)) = Post_request_review(post)
    /\ \A i \in 2..Len(history) :
          (history[i].op = "request_review" /\ history[i - 1].op = "request_review")
              => /\ history[i].state = history[i - 1].state
                 /\ history[i].content = history[i - 1].content
                 /\ (StateBefore(i - 1) = Some("Draft")
                        => history[i].state = Some("PendingReview"))

\* request_review was called twice in a row on a Draft post holding text.
C14_Witness ==
    \E i \in 2..Len(history) :
        /\ history[i].op = "request_review"
        /\ history[i - 1].op = "request_review"
        /\ StateBefore(i - 1) = Some("Draft")
        /\ ContentBefore(i - 1) # <<>>
        /\ i = Len(history)
        /\ post.state = Some("PendingReview")

\* C15: in every state a second approve right after a first changes neither
\* state nor content; two in a row on a PendingReview post leave it
\* Published.
C15_ApproveIdempotent ==
    /\ Post_approve(Post_approve(post)) = Post_approve(post)
    /\ \A i \in 2..Len(history) :
          (history[i].op = "approve" /\ history[i - 1].op = "approve")
              => /\ history[i].state = history[i - 1].state
                 /\ history[i].content = history[i - 1].content
                 /\ (StateBefore(i - 1) = Some("PendingReview")
                        => history[i].state = Some("Published"))

\* approve was called twice in a row on a PendingReview post holding text.
C15_Witness ==
    \E i \in 2..Len(history) :
        /\ history[i].op = "approve"
        /\ history[i - 1].op = "approve"
        /\ StateBefore(i - 1) = Some("PendingReview")
        /\ ContentBefore(i - 1) # <<>>
        /\ i = Len(history)
        /\ post.state = Some("Published")

\* ======================================================================
\* Part 2: chapter12_command_line_program, search and ci_search.  A &str is
\* a sequence of characters; the contents searched hold no carriage return.
\* ======================================================================

\* Longest contents searched.
MaxContentsLen == 5

\* Longest query searched for.
MaxQueryLen == 2

\* A lowercase letter, its uppercase form, and the line terminator.
SearchChars == {"d", "D", "\n"}

RECURSIVE SeqsOver(_, _)
SeqsOver(S, n) ==
    IF n = 0 THEN {<<>>}
    ELSE LET shorter == SeqsOver(S, n - 1)
         IN  shorter \cup {Append(t, c) : t \in {u \in shorter : Len(u) = n - 1}, c \in S}

Queries == SeqsOver(SearchChars, MaxQueryLen)

AllContents == SeqsOver(SearchChars, MaxContentsLen)

\* str::starts_with
starts_with(h, n) == Len(n) <= Len(h) /\ SubSeq(h, 1, Len(n)) = n

\* str::contains with a &str pattern: the pattern is tried at every
\* position from the left.
RECURSIVE contains(_, _)
contains(h, n) ==
    IF starts_with(h, n) THEN TRUE
    ELSE IF h = <<>> THEN FALSE
    ELSE contains(Tail(h), n)

\* char::to_lowercase on the characters of SearchChars.
lower_char(c) == IF c = "D" THEN "d" ELSE c

\* str::to_lowercase
to_lowercase(str) == [i \in 1..Len(str) |-> lower_char(str[i])]

\* The position of the first "\n" of str, 0 when it has none.
RECURSIVE find_newline(_, _)
find_newline(str, i) ==
    IF i > Len(str) THEN 0
    ELSE IF str[i] = "\n" THEN i
    ELSE find_newline(str, i + 1)

\* str::lines: the pieces between "\n"; a final "\n" ends the last line and
\* opens no new one.
RECURSIVE lines(_)
lines(str) ==
    IF str = <<>> THEN <<>>
    ELSE LET k == find_newline(str, 1)
         IN  IF k = 0 THEN <<str>>
             ELSE <<SubSeq(str, 1, k - 1)>> \o lines(SubSeq(str, k + 1, Len(str)))

\* The for loop of search over the lines left, res being the Vec built so
\* far.
RECURSIVE search_loop(_, _, _)
search_loop(ls, q, acc) ==
    IF ls = <<>> THEN acc
    ELSE search_loop(Tail(ls), q,
                     IF contains(ls[1], q) THEN Append(acc, ls[1]) ELSE acc)

RECURSIVE ci_search_loop(_, _, _)
ci_search_loop(ls, q, acc) ==
    IF ls = <<>> THEN acc
    ELSE ci_search_loop(Tail(ls), q,
                        IF contains(to_lowercase(ls[1]), q) THEN Append(acc, ls[1]) ELSE acc)

ci_search_returns_lowercase(q, c) ==
    LET found == ci_search_loop(lines(c), to_lowercase(q), <<>>)
    IN  [i \in 1..Len(found) |-> to_lowercase(found[i])]

ci_search(q, c) == ci_search_loop(lines(c), to_lowercase(q), <<>>)

search_ignores_case(q, c) == ci_search(q, c)

search(q, c) == search_loop(lines(c), q, <<>>)

SearchInit ==
    /\ query \in Queries
    /\ contents \in AllContents
    /\ res = [fn |-> "none", lines |-> <<>>]
    /\ PostIdle
    /\ GuessIdle
    /\ ChanIdle
    /\ ClosureIdle
    /\ ConfigIdle

\* search(query, contents)
Call_search ==
    /\ res.fn = "none"
    /\ res' = [fn |-> "search", lines |-> search(query, contents)]
    /\ UNCHANGED <<query, contents, postVars, guessVars, chanVars, closureVars, configVars>>

\* ci_search(query, contents)
Call_ci_search ==
    /\ res.fn = "none"
    /\ res' = [fn |-> "ci_search", lines |-> ci_search(query, contents)]
    /\ UNCHANGED <<query, contents, postVars, guessVars, chanVars, closureVars, configVars>>

SearchNext ==
    \/ Call_search
    \/ Call_ci_search

SearchSpec == SearchInit /\ [][SearchNext]_vars

\* n occurs in h: h is some prefix, then n, then some suffix.
HasSubstring(h, n) ==
    \E i \in 0..Len(h) : \E j \in i..Len(h) : SubSeq(h, i + 1, j) = n

\* C17: search returns exactly the lines of contents that contain the query
\* as it is written (case-sensitively), in their original order.
C17_SearchIsCaseSensitiveFilter ==
    res.fn = "search" =>
        res.lines = SelectSeq(lines(contents), LAMBDA l : HasSubstring(l, query))

\* search returned lines out of at least three, and left out a line that
\* differs from the query in letter case only.
C17_Witness ==
    /\ res.fn = "search"
    /\ query # <<>>
    /\ Len(lines(contents)) >= 3
    /\ Len(res.lines) >= 2
    /\ \E i \in 1..Len(lines(contents)) :
          /\ lines(contents)[i] # query
          /\ to_lowercase(lines(contents)[i]) = to_lowercase(query)
          /\ \A j \in 1..Len(res.lines) : res.lines[j] # lines(contents)[i]

\* C18: ci_search returns exactly the lines of contents whose lowercase form
\* contains the lowercase form of the query, in their original order and
\* as they are written in contents.
C18_CiSearchIsLowercaseFilter ==
    res.fn = "ci_search" =>
        res.lines = SelectSeq(lines(contents),
                              LAMBDA l : HasSubstring(to_lowercase(l), to_lowercase(query)))

\* ci_search was given a query with an uppercase letter and returned two
\* different lines, one of them with an uppercase letter, and left a line out.
C18_Witness ==
    /\ res.fn = "ci_search"
    /\ query # to_lowercase(query)
    /\ Len(res.lines) >= 2
    /\ res.lines[1] # res.lines[2]
    /\ \E j \in 1..Len(res.lines) : res.lines[j] # to_lowercase(res.lines[j])
    /\ Len(lines(contents)) > Len(res.lines)

\* ======================================================================
\* Part 3: chapter11_writing_automated_tests, Guess::new.  A panic message
\* is the sequence of the pieces format! joins: the literal text, the
\* decimal digits of the value, and the closing literal.
\* ======================================================================

\* Largest value handed to Guess::new.
MaxGuessInput == 120

GuessInputs == 0..MaxGuessInput

DigitChars == <<"0", "1", "2", "3", "4", "5", "6", "7", "8", "9">>

\* Display for u32: the decimal digits, most significant first.
RECURSIVE fmt_u32(_)
fmt_u32(n) ==
    IF n < 10 THEN <<DigitChars[n + 1]>>
    ELSE Append(fmt_u32(n \div 10), DigitChars[(n % 10) + 1])

Guess_new_rejects_100(v) ==
    IF v < 1
    THEN [kind |-> "panic", val |-> 0, msg |-> <<"Guess less than 1, was ", fmt_u32(v), ".">>]
    ELSE IF v >= 100
    THEN [kind |-> "panic", val |-> 0, msg |-> <<"Guess larger than 100, was ", fmt_u32(v), ".">>]
    ELSE [kind |-> "ok", val |-> v, msg |-> <<>>]

\* Guess::new: the Guess built, or the panic raised.
Guess_new(v) ==
    IF v < 1
    THEN [kind |-> "panic", val |-> 0, msg |-> <<"Guess less than 1, was ", fmt_u32(v), ".">>]
    ELSE IF v > 100
    THEN [kind |-> "panic", val |-> 0, msg |-> <<"Guess larger than 100, was ", fmt_u32(v), ".">>]
    ELSE [kind |-> "ok", val |-> v, msg |-> <<>>]

GuessInit ==
    /\ val \in GuessInputs
    /\ guess = [kind |-> "none", val |-> 0, msg |-> <<>>]
    /\ PostIdle
    /\ SearchIdle
    /\ ChanIdle
    /\ ClosureIdle
    /\ ConfigIdle

\* Guess::new(val);
Call_Guess_new ==
    /\ guess.kind = "none"
    /\ guess' = Guess_new(val)
    /\ UNCHANGED <<val, postVars, searchVars, chanVars, closureVars, configVars>>

GuessNext == Call_Guess_new

GuessSpec == GuessInit /\ [][GuessNext]_vars

\* The number a sequence of decimal digits stands for.
RECURSIVE DecimalValue(_)
DecimalValue(d) ==
    IF d = <<>> THEN 0
    ELSE 10 * DecimalValue(SubSeq(d, 1, Len(d) - 1))
            + (CHOOSE k \in 0..9 : DigitChars[k + 1] = d[Len(d)])

\* d is the decimal numeral of n: its digits, with no leading zero.
IsNumeralOf(d, n) ==
    /\ Len(d) >= 1
    /\ \A i \in 1..Len(d) : \E k \in 0..9 : DigitChars[k + 1] = d[i]
    /\ (Len(d) > 1 => d[1] # "0")
    /\ DecimalValue(d) = n

\* C19: Guess::new(val) returns a Guess exactly when 1 <= val <= 100, and the
\* Guess holds val; above 100 it panics with "Guess larger than 100, was
\* <val>." and below 1 with "Guess less than 1, was <val>.".
C19_GuessRange ==
    guess.kind # "none" =>
        /\ guess.kind = "ok" <=> (1 <= val /\ val <= 100)
        /\ guess.kind = "ok" => (guess.val = val /\ guess.val \in 1..100)
        /\ val > 100 =>
              /\ guess.kind = "panic"
              /\ Len(guess.msg) = 3
              /\ guess.msg[1] = "Guess larger than 100, was "
              /\ IsNumeralOf(guess.msg[2], val)
              /\ guess.msg[3] = "."
        /\ val < 1 =>
              /\ guess.kind = "panic"
              /\ Len(guess.msg) = 3
              /\ guess.msg[1] = "Guess less than 1, was "
              /\ IsNumeralOf(guess.msg[2], val)
              /\ guess.msg[3] = "."

\* Guess::new(101) has panicked with the message of tests::guess_greater_than_100.
C19_Witness ==
    /\ val = 101
    /\ guess.kind = "panic"
    /\ guess.msg = <<"Guess larger than 100, was ", <<"1", "0", "1">>, ".">>

\* ======================================================================
\* Part 4: chapter16_fearless_concurrency, the mpsc channel of main: two
\* spawned threads send four strings each through tx and other_tx, the
\* main thread receives until the channel is closed and then polls once.
\* ======================================================================

\* The vals of the two sender closures.
Vals ==
    << <<"hello", "from", "sender", "thread">>,
       <<"more", "messages", "for", "you">> >>

Threads == 1..Len(Vals)

\* The closure returns and nothing is dropped.
Sender_return_keeps_tx(s) == [s EXCEPT !.pc = "done"]

\* The closure returns: the transmitter moved into it is dropped.
Sender_return(s) == [s EXCEPT !.pc = "done", !.tx = FALSE]

\* Some transmitter of the channel is still alive.
Connected == \E t \in Threads : senders[t].tx

ChanInit ==
    /\ chan = <<>>
    /\ senders = [t \in Threads |-> [pc |-> "send", i |-> 1, tx |-> TRUE]]
    /\ main_pc = "loop"
    /\ received = <<>>
    /\ maybe_received = "none"
    /\ PostIdle
    /\ SearchIdle
    /\ GuessIdle
    /\ ClosureIdle
    /\ ConfigIdle

\* tx.send(val).unwrap(): the value is queued; send fails, and the unwrap
\* panics, only when the receiver is gone.
Sender_send(t) ==
    /\ senders[t].pc = "send"
    /\ IF main_pc = "done"
       THEN /\ senders' = [senders EXCEPT ![t] = [@ EXCEPT !.pc = "panicked", !.tx = FALSE]]
            /\ UNCHANGED chan
       ELSE /\ chan' = Append(chan, Vals[t][senders[t].i])
            /\ senders' = [senders EXCEPT ![t].pc = "sleep"]
    /\ UNCHANGED <<main_pc, received, maybe_received, postVars, searchVars, guessVars, closureVars, configVars>>

\* thread::sleep(Duration::from_secs(1)); and the step of the for loop.
Sender_sleep(t) ==
    /\ senders[t].pc = "sleep"
    /\ senders' = [senders EXCEPT ![t] =
                      [@ EXCEPT !.i = @ + 1,
                                !.pc = IF senders[t].i + 1 > Len(Vals[t]) THEN "return" ELSE "send"]]
    /\ UNCHANGED <<chan, main_pc, received, maybe_received, postVars, searchVars, guessVars, closureVars, configVars>>

\* The end of the closure.
Sender_exit(t) ==
    /\ senders[t].pc = "return"
    /\ senders' = [senders EXCEPT ![t] = Sender_return(@)]
    /\ UNCHANGED <<chan, main_pc, received, maybe_received, postVars, searchVars, guessVars, closureVars, configVars>>

\* A receive that reports the closed channel before handing out what is
\* still queued.
Main_recv_drops_queued ==
    /\ main_pc = "loop"
    /\ IF ~Connected
       THEN /\ main_pc' = "try_recv"
            /\ UNCHANGED <<chan, received>>
       ELSE /\ chan # <<>>
            /\ received' = Append(received, Head(chan))
            /\ chan' = Tail(chan)
            /\ UNCHANGED main_pc
    /\ UNCHANGED <<senders, maybe_received, postVars, searchVars, guessVars, closureVars, configVars>>

\* One round of for received in &rx: recv() hands out the oldest message,
\* ends the loop when the channel is empty and every transmitter is
\* dropped, and blocks otherwise.
Main_recv ==
    /\ main_pc = "loop"
    /\ IF chan # <<>>
       THEN /\ received' = Append(received, Head(chan))
            /\ chan' = Tail(chan)
            /\ UNCHANGED main_pc
       ELSE /\ ~Connected
            /\ main_pc' = "try_recv"
            /\ UNCHANGED <<chan, received>>
    /\ UNCHANGED <<senders, maybe_received, postVars, searchVars, guessVars, closureVars, configVars>>

\* match rx.try_recv(): Ok with the oldest message, Err when there is none.
Main_try_recv ==
    /\ main_pc = "try_recv"
    /\ IF chan # <<>>
       THEN /\ maybe_received' = "Ok"
            /\ chan' = Tail(chan)
       ELSE /\ maybe_received' = "Err"
            /\ UNCHANGED chan
    /\ main_pc' = "done"
    /\ UNCHANGED <<senders, received, postVars, searchVars, guessVars, closureVars, configVars>>

Sender_step(t) == Sender_send(t) \/ Sender_sleep(t) \/ Sender_exit(t)

ChanNext ==
    \/ \E t \in Threads : Sender_send(t)
    \/ \E t \in Threads : Sender_sleep(t)
    \/ \E t \in Threads : Sender_exit(t)
    \/ Main_recv
    \/ Main_try_recv

ChanSpec == ChanInit /\ [][ChanNext]_vars

\* Every thread that can run is run in the end, and a sleep ends.
ChanFairSpec ==
    /\ ChanSpec
    /\ WF_vars(Main_recv)
    /\ WF_vars(Main_try_recv)
    /\ \A t \in Threads : WF_vars(Sender_step(t))

\* C20: the receive loop of main ends; it ends only once both sender
\* threads have finished and dropped their transmitters, and while a
\* transmitter is alive the loop is not left.
C20_LoopEndsAfterSenders ==
    /\ <>(main_pc # "loop")
    /\ [](main_pc # "loop" =>
            \A t \in Threads : senders[t].pc = "done" /\ ~senders[t].tx)
    /\ [][(main_pc = "loop" /\ Connected) => main_pc' = "loop"]_vars

\* The loop has ended after printing all eight messages, the two threads'
\* messages interleaved.
C20_Witness ==
    /\ main_pc # "loop"
    /\ Len(received) = 8
    /\ received[1] = "more"
    /\ received[2] = "hello"
    /\ \A t \in Threads : ~senders[t].tx

\* C21: once the receive loop has ended no message is left in the channel,
\* so rx.try_recv() returns Err under every interleaving of the senders.
C21_TryRecvFindsNothing ==
    /\ main_pc = "try_recv" => chan = <<>>
    /\ main_pc = "done" => (maybe_received = "Err" /\ chan = <<>>)

\* try_recv has returned Err after the loop printed all eight messages, the
\* first thread's messages all ahead of the second thread's.
C21_Witness ==
    /\ main_pc = "done"
    /\ maybe_received = "Err"
    /\ received = Vals[1] \o Vals[2]

\* C25: a post is Published only if a request_review call was made before
\* an approve call, and a post that becomes Published was PendingReview
\* just before and became Published by approve.
C25_PublishedOnlyThroughReview ==
    /\ [](post.state = Some("Published") =>
            \E i \in 1..Len(history) : \E j \in (i + 1)..Len(history) :
                history[i].op = "request_review" /\ history[j].op = "approve")
    /\ [][(post'.state = Some("Published") /\ post.state # Some("Published"))
            => (post.state = Some("PendingReview") /\ Do_approve)]_vars

\* A post whose first call was an approve, Published after a later
\* request_review and approve.
C25_Witness ==
    /\ post.state = Some("Published")
    /\ Len(history) >= 3
    /\ history[1].op = "approve"
    /\ history[1].state = Some("Draft")
    /\ history[Len(history)].op = "approve"
    /\ StateBefore(Len(history)) = Some("PendingReview")

\* ======================================================================
\* Part 5: chapter13_iterators_and_closures, the Cacher built around
\* add_closure and the CounterToFive iterator.
\* ======================================================================

\* Number of value calls made on the Cacher.
MaxValueCalls == 3

\* Largest argument handed to Cacher::value.
MaxArg == 2

\* Number of next calls made on the CounterToFive.
MaxNextCalls == 8

\* let add_closure = |x, y| { ...; x + y };
add_closure(x, y) == x + y

\* Cacher::new(add_closure)
Cacher_new == [value |-> None]

Cacher_value_never_stores(self, x, y) ==
    IF self.value # None
    THEN [self |-> self, ret |-> unwrap(self.value), invoked |-> 0]
    ELSE LET v == add_closure(x, y)
         IN  [self |-> self, ret |-> v, invoked |-> 1]

\* Cacher::value: the Cacher as the call leaves it, the value returned, and
\* how often the callable was invoked.
Cacher_value(self, x, y) ==
    IF self.value # None
    THEN [self |-> self, ret |-> unwrap(self.value), invoked |-> 0]
    ELSE LET v == add_closure(x, y)
         IN  [self |-> [self EXCEPT !.value = Some(v)], ret |-> v, invoked |-> 1]

\* CounterToFive::new()
CounterToFive_new == [count |-> 0]

CounterToFive_next_one_more(self) ==
    IF self.count <= 5
    THEN [self |-> [self EXCEPT !.count = @ + 1], ret |-> Some(self.count + 1)]
    ELSE [self |-> self, ret |-> None]

\* Iterator::next for CounterToFive: the iterator as the call leaves it and
\* the Option returned.
CounterToFive_next(self) ==
    IF self.count < 5
    THEN [self |-> [self EXCEPT !.count = @ + 1], ret |-> Some(self.count + 1)]
    ELSE [self |-> self, ret |-> None]

ClosureInit ==
    /\ cacher = Cacher_new
    /\ invocations = 0
    /\ value_log = <<>>
    /\ counter = CounterToFive_new
    /\ nexts = <<>>
    /\ PostIdle
    /\ SearchIdle
    /\ GuessIdle
    /\ ChanIdle
    /\ ConfigIdle

\* c.value(x, y)
Call_value(x, y) ==
    /\ Len(value_log) < MaxValueCalls
    /\ LET out == Cacher_value(cacher, x, y)
       IN  /\ cacher' = out.self
           /\ invocations' = invocations + out.invoked
           /\ value_log' = Append(value_log, [x |-> x, y |-> y, ret |-> out.ret])
    /\ UNCHANGED <<counter, nexts, postVars, searchVars, guessVars, chanVars, configVars>>

\* counter.next()
Call_next ==
    /\ Len(nexts) < MaxNextCalls
    /\ LET out == CounterToFive_next(counter)
       IN  /\ counter' = out.self
           /\ nexts' = Append(nexts, out.ret)
    /\ UNCHANGED <<cacher, invocations, value_log, postVars, searchVars, guessVars, chanVars, configVars>>

ClosureNext ==
    \/ \E x \in 0..MaxArg, y \in 0..MaxArg : Call_value(x, y)
    \/ Call_next

ClosureSpec == ClosureInit /\ [][ClosureNext]_vars

\* C22: over any value calls on one Cacher the callable runs exactly once,
\* on the first call, and every call returns what that first run returned,
\* whatever arguments the later calls pass.
C22_CacherRunsCallableOnce ==
    /\ value_log = <<>> => (invocations = 0 /\ cacher.value = None)
    /\ value_log # <<>> =>
          /\ invocations = 1
          /\ cacher.value = Some(value_log[1].x + value_log[1].y)
          /\ \A i \in 1..Len(value_log) :
                value_log[i].ret = value_log[1].x + value_log[1].y

\* Three value calls with arguments of three different sums all returned
\* the first sum.
C22_Witness ==
    /\ Len(value_log) = 3
    /\ value_log[1].x + value_log[1].y # value_log[2].x + value_log[2].y
    /\ value_log[1].x + value_log[1].y # value_log[3].x + value_log[3].y
    /\ value_log[2].x + value_log[2].y # value_log[3].x + value_log[3].y
    /\ value_log[3].ret = value_log[1].x + value_log[1].y
    /\ invocations = 1

\* C23: the next calls on a new CounterToFive return Some(1) .. Some(5) in
\* that order and None on every later call, and the count never exceeds 5.
C23_CounterCountsToFive ==
    /\ \A i \in 1..Len(nexts) : nexts[i] = IF i <= 5 THEN Some(i) ELSE None
    /\ counter.count <= 5
    /\ counter.count = IF Len(nexts) <= 5 THEN Len(nexts) ELSE 5

\* next has been called seven times and the last two calls returned None.
C23_Witness ==
    /\ Len(nexts) >= 7
    /\ nexts[5] = Some(5)
    /\ nexts[6] = None
    /\ nexts[7] = None
    /\ counter.count = 5

\* ======================================================================
\* Part 6: chapter12_command_line_program, Config::new.  args is the
\* vector collected from env::args(); args[0] of the source is args[1] here.
\* ======================================================================

\* Largest number of command-line arguments, the program name included.
MaxArgs == 4

\* The strings an argument can be.
ArgStrings == {"minigrep", "duct", "poem.txt"}

RECURSIVE ArgLists(_)
ArgLists(n) ==
    IF n = 0 THEN {<<>>}
    ELSE LET shorter == ArgLists(n - 1)
         IN  shorter \cup {Append(a, w) : a \in {b \in shorter : Len(b) = n - 1}, w \in ArgStrings}

Config_new_takes_program_name(a, env) ==
    IF Len(a) < 3
    THEN [kind |-> "Err", err |-> "Not enough input arguments."]
    ELSE [kind |-> "Ok", query |-> a[1], filename |-> a[2], case_sensitive |-> ~env]

\* Config::new: Err with the message, or Ok with the Config; env tells
\* whether env::var("CASE_INSENSITIVE") is Ok.
Config_new(a, env) ==
    IF Len(a) < 3
    THEN [kind |-> "Err", err |-> "Not enough input arguments."]
    ELSE [kind |-> "Ok", query |-> a[2], filename |-> a[3], case_sensitive |-> ~env]

ConfigInit ==
    /\ args \in ArgLists(MaxArgs)
    /\ env_set \in BOOLEAN
    /\ config = [kind |-> "none"]
    /\ PostIdle
    /\ SearchIdle
    /\ GuessIdle
    /\ ChanIdle
    /\ ClosureIdle

\* Config::new(&args)
Call_Config_new ==
    /\ config.kind = "none"
    /\ config' = Config_new(args, env_set)
    /\ UNCHANGED <<args, env_set, postVars, searchVars, guessVars, chanVars, closureVars>>

ConfigNext == Call_Config_new

ConfigSpec == ConfigInit /\ [][ConfigNext]_vars

\* C24: Config::new returns Err("Not enough input arguments.") exactly when
\* args has fewer than 3 entries, and otherwise Ok with the second entry as
\* query and the third as filename, whatever the first and any further
\* entries are.
C24_ConfigNeedsThreeArgs ==
    config.kind # "none" =>
        /\ config.kind = "Err" <=> Len(args) < 3
        /\ config.kind = "Ok" <=> Len(args) >= 3
        /\ config.kind = "Err" => config.err = "Not enough input arguments."
        /\ config.kind = "Ok" =>
              /\ config.query = args[2]
              /\ config.filename = args[3]
              /\ \A other \in ArgLists(MaxArgs) :
                    (Len(other) >= 3 /\ other[2] = args[2] /\ other[3] = args[3])
                        => /\ Config_new(other, env_set).query = config.query
                           /\ Config_new(other, env_set).filename = config.filename

\* Config::new returned Ok for four arguments, the first three of them
\* different strings.
C24_Witness ==
    /\ config.kind = "Ok"
    /\ Len(args) = 4
    /\ args[1] # args[2]
    /\ args[2] # args[3]
    /\ args[1] # args[3]
    /\ config.query = args[2]
    /\ config.filename = args[3]

====
